---------------------------- MODULE Spec2Model ----------------------------
(***************************************************************************)
(* Model of the multi-agent research workflow (src/graph, src/agents).     *)
(*                                                                         *)
(* A thread is a checkpointed conversation.  graph.invoke(input, thread)   *)
(* merges the input and runs the stage graph from clarity; a stage is one  *)
(* superstep: the node function runs on the call's state, its update is    *)
(* merged through the reducers of GraphState, the routing function of the  *)
(* node is evaluated on the merged state and the checkpoint is saved.      *)
(* graph.invoke(Command(resume=R), thread) continues from the checkpoint.  *)
(*                                                                         *)
(* Encoding.  Optional text fields hold None; the two numeric fields hold  *)
(* <<>> for None/absent and <<v>> for the value v.  Confidence scores are  *)
(* floats with one decimal, held as tenths (5.9 is 59, 6.0 is 60).         *)
(***************************************************************************)
EXTENDS Integers, Sequences, FiniteSets, TLC

VARIABLES
    store,   \* thread id -> latest checkpoint of the MemorySaver
    calls    \* call slot -> the graph.invoke call running in it, and its result

vars == <<store, calls>>

-----------------------------------------------------------------------------
(* Bounds of the model *)

\* A call starts only on a thread whose history holds at most this many messages.
MaxHistory == 4

\* With overlapping calls, a call starts only while the history holds at most
\* this many messages.
MaxOverlapHistory == 1

\* With two threads in use, an invoke starts only on a thread whose history
\* holds at most this many messages, a resume on one that holds at most one
\* more (the input of the turn it resumes).
MaxThreadsHistory == 0

-----------------------------------------------------------------------------
(* Program constants *)

\* routing.py: research_attempts < 3
MaxAttempts == 3
\* routing.py: confidence_score < 6, in tenths
ConfidenceGate == 60

None == "None"
NoNum == <<>>

AllThreads == {"t1", "t2"}
AllCalls == {"c1", "c2"}

Queries == {"q1", "q2"}
ResumeValues == {"r1"}

\* What the structured clarity model can hand back: a ClarityResult
\* (clarity_status is any str), or no ClarityResult at all, when the call
\* raises or returns None.
ClarityResults ==
    { [isResult |-> TRUE, clarity_status |-> "clear", company_name |-> "Acme",
       clarification_question |-> None],
      [isResult |-> TRUE, clarity_status |-> "clear", company_name |-> "Acme",
       clarification_question |-> "Which company?"],
      [isResult |-> TRUE, clarity_status |-> "needs_clarification",
       company_name |-> None, clarification_question |-> "Which company?"],
      [isResult |-> TRUE, clarity_status |-> "needs_clarification",
       company_name |-> None, clarification_question |-> None],
      [isResult |-> TRUE, clarity_status |-> "unsure", company_name |-> None,
       clarification_question |-> None],
      [isResult |-> FALSE, clarity_status |-> None, company_name |-> None,
       clarification_question |-> None] }

\* What the research and the synthesis model can answer: an AIMessage with a
\* text content, or something that is no AIMessage.
ModelResponses ==
    { [isAI |-> TRUE, content |-> " text "],
      [isAI |-> TRUE, content |-> "  "],
      [isAI |-> FALSE, content |-> ""] }

\* ConfidenceAssessment.confidence_score: a float the assessor chooses (tenths).
ConfidenceScores == {59, 60, 110}

\* ValidationAssessment.validation_result.
Verdicts == {"sufficient", "insufficient"}

\* What the structured validator model can hand back: an assessment with one
\* of the verdicts, or none (None), when the call raises or returns None.
ValidatorAnswers == Verdicts \cup {None}

-----------------------------------------------------------------------------
(* State model: src/graph/state.py *)

\* GraphState before anything was written to it.
EmptyState ==
    [ messages |-> <<>>, query |-> None, company_name |-> None,
      last_discussed_company |-> None, clarity_status |-> None,
      research_findings |-> None, confidence_score |-> NoNum,
      validation_result |-> None, research_attempts |-> NoNum,
      final_response |-> None, clarification_question |-> None,
      visited_nodes |-> <<>> ]

\* The fields annotated with operator.add.
AppendFields == {"messages", "visited_nodes"}

\* The reducers: operator.add fields are concatenated, every other field named
\* in the update is overwritten, a field the update does not name is kept.
\* Faulty variant: messages and visited_nodes declared without their operator.add reducer.
Merge_Overwrite(st, upd) ==
    [ k \in DOMAIN st |-> IF k \in DOMAIN upd THEN upd[k] ELSE st[k] ]

\* Faulty variant: the update replaces the state, a field it does not name is lost.
Merge_DropsUnnamed(st, upd) ==
    [ k \in DOMAIN st |->
        IF k \in DOMAIN upd
            THEN IF k \in AppendFields THEN st[k] \o upd[k] ELSE upd[k]
            ELSE IF k \in AppendFields THEN st[k] ELSE EmptyState[k] ]

Merge(st, upd) ==
    [ k \in DOMAIN st |->
        IF k \in DOMAIN upd
            THEN IF k \in AppendFields THEN st[k] \o upd[k] ELSE upd[k]
            ELSE st[k] ]

HumanMessage(content) == [role |-> "human", content |-> content]
AIMessage(content) == [role |-> "ai", content |-> content]

\* str.strip on the contents the models return.
Strip(s) == IF s = " text " THEN "text" ELSE IF s = "  " THEN "" ELSE s

\* Python's `x or default` on an optional text.
OrElse(x, default) == IF x = None \/ x = "" THEN default ELSE x

\* state.get("research_attempts", 0): the field is an int that is absent (<<>>)
\* until a stage writes it; no stage and no caller writes None to it.
GetAttempts(st) ==
    IF st.research_attempts = NoNum THEN 0 ELSE st.research_attempts[1]

-----------------------------------------------------------------------------
(* Routing functions: src/graph/routing.py *)

\* Faulty variant: everything but clear is sent to the interrupt.
route_after_clarity_UnlessClear(st) ==
    IF st.clarity_status # "clear" THEN "interrupt" ELSE "research"

route_after_clarity(st) ==
    IF st.clarity_status = "needs_clarification" THEN "interrupt" ELSE "research"

\* Faulty variant: research without findings is sent to validator whatever its score.
route_after_research_ChecksFindings(st) ==
    IF st.research_findings = None \/ st.confidence_score = NoNum
                                   \/ st.confidence_score[1] < ConfidenceGate
        THEN "validator" ELSE "synthesis"

\* Faulty variant: the gate compared with <= instead of <.
route_after_research_AtMost(st) ==
    IF st.confidence_score = NoNum \/ st.confidence_score[1] <= ConfidenceGate
        THEN "validator" ELSE "synthesis"

route_after_research(st) ==
    IF st.confidence_score = NoNum \/ st.confidence_score[1] < ConfidenceGate
        THEN "validator" ELSE "synthesis"

\* Faulty variant: the cap compared with <= instead of <.
route_after_validation_AtMost(st) ==
    IF st.validation_result = "insufficient" /\ GetAttempts(st) <= MaxAttempts
        THEN "research" ELSE "synthesis"

\* Faulty variant: the cap is not looked at, only the verdict.
route_after_validation_NoCap(st) ==
    IF st.validation_result = "insufficient" THEN "research" ELSE "synthesis"

\* Faulty variant: the verdict is not looked at, only the cap.
route_after_validation_AnyVerdict(st) ==
    IF GetAttempts(st) < MaxAttempts THEN "research" ELSE "synthesis"

route_after_validation(st) ==
    IF st.validation_result = "insufficient" /\ GetAttempts(st) < MaxAttempts
        THEN "research" ELSE "synthesis"

-----------------------------------------------------------------------------
(* Stage functions: src/agents, src/graph/builder.py.  Each returns           *)
(* [ok |-> TRUE, update |-> u] or, when it raises, [ok |-> FALSE].            *)

\* Faulty variant: the per-turn reset forgets the research results.
run_clarity_agent_KeepsFindings(st, result) ==
    IF ~result.isResult THEN [ok |-> FALSE]
    ELSE [ ok |-> TRUE,
           update |->
             [ research_attempts |-> <<0>>,
               validation_result |-> None,
               final_response |-> None,
               query |-> OrElse(st.query, ""),
               company_name |-> result.company_name,
               clarity_status |-> result.clarity_status,
               clarification_question |-> result.clarification_question,
               visited_nodes |-> <<"clarity">> ] ]

\* Faulty variant: the per-turn reset forgets research_attempts.
run_clarity_agent_KeepsAttempts(st, result) ==
    IF ~result.isResult THEN [ok |-> FALSE]
    ELSE [ ok |-> TRUE,
           update |->
             [ validation_result |-> None,
               confidence_score |-> NoNum,
               research_findings |-> None,
               final_response |-> None,
               query |-> OrElse(st.query, ""),
               company_name |-> result.company_name,
               clarity_status |-> result.clarity_status,
               clarification_question |-> result.clarification_question,
               visited_nodes |-> <<"clarity">> ] ]

\* Faulty variant: the per-turn reset forgets final_response.
run_clarity_agent_KeepsFinal(st, result) ==
    IF ~result.isResult THEN [ok |-> FALSE]
    ELSE [ ok |-> TRUE,
           update |->
             [ research_attempts |-> <<0>>,
               validation_result |-> None,
               confidence_score |-> NoNum,
               research_findings |-> None,
               query |-> OrElse(st.query, ""),
               company_name |-> result.company_name,
               clarity_status |-> result.clarity_status,
               clarification_question |-> result.clarification_question,
               visited_nodes |-> <<"clarity">> ] ]

\* run_clarity_agent: without a ClarityResult (the structured call raised, or
\* returned None and result.clarity_status cannot be read) the node raises;
\* else the per-turn resets and the fields of the result are the update.
run_clarity_agent(st, result) ==
    IF ~result.isResult THEN [ok |-> FALSE]
    ELSE [ ok |-> TRUE,
           update |->
             [ research_attempts |-> <<0>>,
               validation_result |-> None,
               confidence_score |-> NoNum,
               research_findings |-> None,
               final_response |-> None,
               query |-> OrElse(st.query, ""),
               company_name |-> result.company_name,
               clarity_status |-> result.clarity_status,
               clarification_question |-> result.clarification_question,
               visited_nodes |-> <<"clarity">> ] ]

\* Faulty variant: research does not record its visit.
run_research_agent_NoVisit(st, response, score) ==
    IF ~response.isAI THEN [ok |-> FALSE]
    ELSE IF Strip(response.content) = "" THEN [ok |-> FALSE]
    ELSE [ ok |-> TRUE,
           update |->
             [ messages |-> <<AIMessage(Strip(response.content))>>,
               research_findings |-> Strip(response.content),
               confidence_score |-> <<score>> ] ]

\* Faulty variant: research counts the attempt as well.
run_research_agent_CountsAttempt(st, response, score) ==
    IF ~response.isAI THEN [ok |-> FALSE]
    ELSE IF Strip(response.content) = "" THEN [ok |-> FALSE]
    ELSE [ ok |-> TRUE,
           update |->
             [ messages |-> <<AIMessage(Strip(response.content))>>,
               research_findings |-> Strip(response.content),
               confidence_score |-> <<score>>,
               research_attempts |-> <<GetAttempts(st) + 1>>,
               visited_nodes |-> <<"research">> ] ]

run_research_agent(st, response, score) ==
    IF ~response.isAI THEN [ok |-> FALSE]
    ELSE IF Strip(response.content) = "" THEN [ok |-> FALSE]
    ELSE [ ok |-> TRUE,
           update |->
             [ messages |-> <<AIMessage(Strip(response.content))>>,
               research_findings |-> Strip(response.content),
               confidence_score |-> <<score>>,
               visited_nodes |-> <<"research">> ] ]

\* Faulty variant: the attempt is not counted.
run_validator_agent_NoIncrement(st, verdict) ==
    IF verdict = None THEN [ok |-> FALSE]
    ELSE [ ok |-> TRUE,
           update |->
             [ messages |-> <<AIMessage("critique")>>,
               validation_result |-> verdict,
               research_attempts |-> <<GetAttempts(st)>>,
               visited_nodes |-> <<"validator">> ] ]

\* Faulty variant: the validator adds its critique to no message.
run_validator_agent_NoMessage(st, verdict) ==
    IF verdict = None THEN [ok |-> FALSE]
    ELSE [ ok |-> TRUE,
           update |->
             [ validation_result |-> verdict,
               research_attempts |-> <<GetAttempts(st) + 1>>,
               visited_nodes |-> <<"validator">> ] ]

\* run_validator_agent: without an assessment (the structured call raised, or
\* returned None and assessment.validation_result cannot be read) the node
\* raises; else the critique, the verdict and the counted attempt are the update.
run_validator_agent(st, verdict) ==
    IF verdict = None THEN [ok |-> FALSE]
    ELSE [ ok |-> TRUE,
           update |->
             [ messages |-> <<AIMessage("critique")>>,
               validation_result |-> verdict,
               research_attempts |-> <<GetAttempts(st) + 1>>,
               visited_nodes |-> <<"validator">> ] ]

\* Faulty variant: the emptiness check looks at the text before it is stripped.
run_synthesis_agent_ChecksRaw(st, response) ==
    IF ~response.isAI THEN [ok |-> FALSE]
    ELSE IF response.content = "" THEN [ok |-> FALSE]
    ELSE [ ok |-> TRUE,
           update |->
             [ messages |-> <<AIMessage(response.content)>>,
               final_response |-> Strip(response.content),
               visited_nodes |-> <<"synthesis">> ] ]

\* Faulty variant: the emptiness check of the final text is missing.
run_synthesis_agent_NoEmptyCheck(st, response) ==
    IF ~response.isAI THEN [ok |-> FALSE]
    ELSE [ ok |-> TRUE,
           update |->
             [ messages |-> <<AIMessage(response.content)>>,
               final_response |-> Strip(response.content),
               visited_nodes |-> <<"synthesis">> ] ]

run_synthesis_agent(st, response) ==
    IF ~response.isAI THEN [ok |-> FALSE]
    ELSE IF Strip(response.content) = "" THEN [ok |-> FALSE]
    ELSE [ ok |-> TRUE,
           update |->
             [ messages |-> <<AIMessage(response.content)>>,
               final_response |-> Strip(response.content),
               visited_nodes |-> <<"synthesis">> ] ]

\* Faulty variant: the stored question is handed on without the default text.
InterruptQuestion_NoDefault(st) == st.clarification_question

\* clarity_interrupt_node: the payload handed to interrupt().
InterruptQuestion(st) == OrElse(st.clarification_question, "Please clarify")

\* Faulty variant: the clarification is appended to the history but query keeps the
\* vague text.
clarity_interrupt_node_KeepsQuery(st, clarification) ==
    [ messages |-> <<HumanMessage(clarification)>>,
      visited_nodes |-> <<"clarity_interrupt">> ]

\* Faulty variant: the resumed node does not record its visit.
clarity_interrupt_node_NoVisit(st, clarification) ==
    [ messages |-> <<HumanMessage(clarification)>>,
      query |-> clarification ]

\* clarity_interrupt_node once interrupt() has returned the resume value.
clarity_interrupt_node(st, clarification) ==
    [ messages |-> <<HumanMessage(clarification)>>,
      query |-> clarification,
      visited_nodes |-> <<"clarity_interrupt">> ]

\* Faulty variant: the resumed clarity_interrupt goes on to research instead of
\* back to clarity.
NextNode_ResumeSkipsClarity(node, st) ==
    CASE node = "clarity" ->
            IF route_after_clarity(st) = "interrupt"
                THEN "clarity_interrupt" ELSE "research"
      [] node = "clarity_interrupt" -> "research"
      [] node = "research" -> route_after_research(st)
      [] node = "validator" -> route_after_validation(st)
      [] node = "synthesis" -> "END"

\* build_graph: the edges out of each node.
NextNode(node, st) ==
    CASE node = "clarity" ->
            IF route_after_clarity(st) = "interrupt"
                THEN "clarity_interrupt" ELSE "research"
      [] node = "clarity_interrupt" -> "clarity"
      [] node = "research" -> route_after_research(st)
      [] node = "validator" -> route_after_validation(st)
      [] node = "synthesis" -> "END"

-----------------------------------------------------------------------------
(* Checkpoints and calls *)

NoCheckpoint ==
    [exists |-> FALSE, st |-> EmptyState, next |-> "END", interrupt |-> None]

NoResult == [kind |-> "none", payload |-> None]

\* A slot with no call running: it keeps what its last call was and returned.
IdleCall(op, t, result) ==
    [ pc |-> "idle", op |-> op, thread |-> t, st |-> EmptyState, next |-> "END",
      resume |-> None, result |-> result ]

Running(c) == calls[c].pc = "run"

\* A thread is suspended when its checkpoint holds a pending interrupt.
Suspended(t) == store[t].exists /\ store[t].interrupt # None

\* No call is running on thread t.
Quiet(t) == \A c \in AllCalls : Running(c) => calls[c].thread # t

Init ==
    /\ store = [t \in AllThreads |-> NoCheckpoint]
    /\ calls = [c \in AllCalls |-> IdleCall("none", "t1", NoResult)]

\* Faulty variant: the routing function is given the state the stage started on.
Complete_RoutesBefore(c, update) ==
    LET t == calls[c].thread
        merged == Merge(calls[c].st, update)
        nxt == NextNode(calls[c].next, calls[c].st)
    IN  /\ store' = [store EXCEPT ![t] =
                        [exists |-> TRUE, st |-> merged, next |-> nxt,
                         interrupt |-> None]]
        /\ calls' = [calls EXCEPT ![c] =
                        IF nxt = "END"
                            THEN IdleCall(calls[c].op, t,
                                          [kind |-> "final", payload |-> None])
                            ELSE [@ EXCEPT !.st = merged, !.next = nxt,
                                           !.resume = None]]

\* Faulty variant: the new checkpoint carries the pending interrupt of the old one.
Complete_KeepsInterrupt(c, update) ==
    LET t == calls[c].thread
        merged == Merge(calls[c].st, update)
        nxt == NextNode(calls[c].next, merged)
    IN  /\ store' = [store EXCEPT ![t] =
                        [exists |-> TRUE, st |-> merged, next |-> nxt,
                         interrupt |-> store[t].interrupt]]
        /\ calls' = [calls EXCEPT ![c] =
                        IF nxt = "END"
                            THEN IdleCall(calls[c].op, t,
                                          [kind |-> "final", payload |-> None])
                            ELSE [@ EXCEPT !.st = merged, !.next = nxt,
                                           !.resume = None]]

\* One superstep that completed: merge the update, route, save the checkpoint;
\* the call returns when the graph reached END.
Complete(c, update) ==
    LET t == calls[c].thread
        merged == Merge(calls[c].st, update)
        nxt == NextNode(calls[c].next, merged)
    IN  /\ store' = [store EXCEPT ![t] =
                        [exists |-> TRUE, st |-> merged, next |-> nxt,
                         interrupt |-> None]]
        /\ calls' = [calls EXCEPT ![c] =
                        IF nxt = "END"
                            THEN IdleCall(calls[c].op, t,
                                          [kind |-> "final", payload |-> None])
                            ELSE [@ EXCEPT !.st = merged, !.next = nxt,
                                           !.resume = None]]

\* A stage raised: the call ends with the exception, nothing is saved.
Raise(c) ==
    /\ calls' = [calls EXCEPT ![c] =
                    IdleCall(calls[c].op, calls[c].thread,
                             [kind |-> "error", payload |-> None])]
    /\ UNCHANGED store

Finish(c, outcome) ==
    IF outcome.ok THEN Complete(c, outcome.update) ELSE Raise(c)

\* Faulty variant: new input on a thread with a pending node continues at that
\* node instead of the entry node.
Invoke_ContinuesPending(c, t, q) ==
    /\ ~Running(c)
    /\ Len(store[t].st.messages) <= MaxHistory
    /\ LET merged == Merge(store[t].st,
                           [messages |-> <<HumanMessage(q)>>, query |-> q])
           first == IF store[t].exists /\ store[t].next # "END"
                        THEN store[t].next ELSE "clarity"
       IN  /\ store' = [store EXCEPT ![t] =
                           [exists |-> TRUE, st |-> merged, next |-> first,
                            interrupt |-> None]]
           /\ calls' = [calls EXCEPT ![c] =
                           [pc |-> "run", op |-> "invoke", thread |-> t,
                            st |-> merged,
                            next |-> first, resume |-> None,
                            result |-> NoResult]]

\* Faulty variant: the checkpoint of every call is saved under one key, whatever
\* the thread id of the call.
Invoke_OneKey(c, t, q) ==
    /\ ~Running(c)
    /\ Len(store[t].st.messages) <= MaxHistory
    /\ LET merged == Merge(store[t].st,
                           [messages |-> <<HumanMessage(q)>>, query |-> q])
       IN  /\ store' = [store EXCEPT !["t1"] =
                           [exists |-> TRUE, st |-> merged, next |-> "clarity",
                            interrupt |-> None]]
           /\ calls' = [calls EXCEPT ![c] =
                           [pc |-> "run", op |-> "invoke", thread |-> t,
                            st |-> merged,
                            next |-> "clarity", resume |-> None,
                            result |-> NoResult]]

\* Faulty variant: a graph compiled without the checkpointer, every call starts
\* from the input alone.
Invoke_NoCheckpointer(c, t, q) ==
    /\ ~Running(c)
    /\ Len(store[t].st.messages) <= MaxHistory
    /\ LET merged == Merge(EmptyState,
                           [messages |-> <<HumanMessage(q)>>, query |-> q])
       IN  /\ store' = [store EXCEPT ![t] =
                           [exists |-> TRUE, st |-> merged, next |-> "clarity",
                            interrupt |-> None]]
           /\ calls' = [calls EXCEPT ![c] =
                           [pc |-> "run", op |-> "invoke", thread |-> t,
                            st |-> merged,
                            next |-> "clarity", resume |-> None,
                            result |-> NoResult]]

\* graph.invoke({"messages": [HumanMessage(q)], "query": q}, thread t): pending
\* work of the checkpoint is discarded, the input is merged and the run starts
\* at the entry node.
Invoke(c, t, q) ==
    /\ ~Running(c)
    /\ Len(store[t].st.messages) <= MaxHistory
    /\ LET merged == Merge(store[t].st,
                           [messages |-> <<HumanMessage(q)>>, query |-> q])
       IN  /\ store' = [store EXCEPT ![t] =
                           [exists |-> TRUE, st |-> merged, next |-> "clarity",
                            interrupt |-> None]]
           /\ calls' = [calls EXCEPT ![c] =
                           [pc |-> "run", op |-> "invoke", thread |-> t,
                            st |-> merged,
                            next |-> "clarity", resume |-> None,
                            result |-> NoResult]]

\* graph.invoke(Command(resume=r), thread t) on a thread that has a checkpoint:
\* the run continues with the pending node of the checkpoint; with no pending
\* node the values of the checkpoint are returned.
Resume(c, t, r) ==
    /\ ~Running(c)
    /\ store[t].exists
    /\ Len(store[t].st.messages) <= MaxHistory
    /\ calls' = [calls EXCEPT ![c] =
                    IF store[t].next = "END"
                        THEN IdleCall("resume", t,
                                      [kind |-> "final", payload |-> None])
                        ELSE [pc |-> "run", op |-> "resume", thread |-> t,
                              st |-> store[t].st,
                              next |-> store[t].next, resume |-> r,
                              result |-> NoResult]]
    /\ UNCHANGED store

\* graph.invoke(Command(resume=r), thread t) on a thread id that has no
\* checkpoint: build_graph adds no lookup in front of the compiled graph, the
\* command carries no input, and the run starts at the entry node on the
\* empty state, which is saved as the first checkpoint of the thread.
ResumeUnknown(c, t, r) ==
    /\ ~Running(c)
    /\ ~store[t].exists
    /\ store' = [store EXCEPT ![t] =
                    [exists |-> TRUE, st |-> EmptyState, next |-> "clarity",
                     interrupt |-> None]]
    /\ calls' = [calls EXCEPT ![c] =
                    [pc |-> "run", op |-> "resume", thread |-> t,
                     st |-> EmptyState,
                     next |-> "clarity", resume |-> r,
                     result |-> NoResult]]

ClarityStep(c) ==
    /\ Running(c) /\ calls[c].next = "clarity"
    /\ \E result \in ClarityResults :
          Finish(c, run_clarity_agent(calls[c].st, result))

\* Faulty variant: the suspension records clarity_interrupt in visited_nodes.
SuspendStep_RecordsVisit(c) ==
    /\ Running(c) /\ calls[c].next = "clarity_interrupt"
    /\ calls[c].resume = None
    /\ LET t == calls[c].thread
           question == InterruptQuestion(calls[c].st)
       IN  /\ store' = [store EXCEPT
                           ![t].interrupt = question,
                           ![t].st.visited_nodes = Append(@, "clarity_interrupt")]
           /\ calls' = [calls EXCEPT ![c] =
                           IdleCall(calls[c].op, t,
                                    [kind |-> "suspended", payload |-> question])]

\* clarity_interrupt without a resume value: interrupt() suspends the run; the
\* node has produced no update, the checkpoint keeps the node pending.
SuspendStep(c) ==
    /\ Running(c) /\ calls[c].next = "clarity_interrupt"
    /\ calls[c].resume = None
    /\ LET t == calls[c].thread
           question == InterruptQuestion(calls[c].st)
       IN  /\ store' = [store EXCEPT ![t].interrupt = question]
           /\ calls' = [calls EXCEPT ![c] =
                           IdleCall(calls[c].op, t,
                                    [kind |-> "suspended", payload |-> question])]

\* clarity_interrupt run again by a resume: interrupt() returns the value.
ResumedStep(c) ==
    /\ Running(c) /\ calls[c].next = "clarity_interrupt"
    /\ calls[c].resume # None
    /\ Complete(c, clarity_interrupt_node(calls[c].st, calls[c].resume))

ResearchStep(c) ==
    /\ Running(c) /\ calls[c].next = "research"
    /\ \E response \in ModelResponses, score \in ConfidenceScores :
          Finish(c, run_research_agent(calls[c].st, response, score))

ValidatorStep(c) ==
    /\ Running(c) /\ calls[c].next = "validator"
    /\ \E verdict \in ValidatorAnswers :
          Finish(c, run_validator_agent(calls[c].st, verdict))

SynthesisStep(c) ==
    /\ Running(c) /\ calls[c].next = "synthesis"
    /\ \E response \in ModelResponses :
          Finish(c, run_synthesis_agent(calls[c].st, response))

Step(c) ==
    \/ ClarityStep(c)
    \/ SuspendStep(c)
    \/ ResumedStep(c)
    \/ ResearchStep(c)
    \/ ValidatorStep(c)
    \/ SynthesisStep(c)

\* The callers of the repository (demo.py, tests): one thread, one call at a time.
Next ==
    \/ \E q \in Queries : Quiet("t1") /\ Invoke("c1", "t1", q)
    \/ \E r \in ResumeValues : Quiet("t1") /\ Resume("c1", "t1", r)
    \/ Step("c1")

Spec == Init /\ [][Next]_vars

\* Callers that do not wait for one another: one caller sends new input, a
\* second one resumes, both on thread t1 and each in its own call slot.
NextOverlap ==
    \/ \E q \in Queries :
          Len(store["t1"].st.messages) <= MaxOverlapHistory /\ Invoke("c1", "t1", q)
    \/ \E r \in ResumeValues :
          Len(store["t1"].st.messages) <= MaxOverlapHistory /\ Resume("c2", "t1", r)
    \/ \E c \in AllCalls : Step(c)

SpecOverlap == Init /\ [][NextOverlap]_vars

\* Two conversations, each with its own thread id on the one compiled graph,
\* whose calls interleave step by step; on each thread the calls are
\* sequential.  The conversation on t1 asks q1 and takes any number of turns
\* within the history bound; the one on t2 asks q2 and is a single turn with
\* at most one clarification.
NextThreads ==
    \/ /\ Quiet("t1") /\ Len(store["t1"].st.messages) <= MaxThreadsHistory
       /\ Invoke("c1", "t1", "q1")
    \/ \E r \in ResumeValues :
          /\ Quiet("t1") /\ Len(store["t1"].st.messages) <= MaxThreadsHistory + 1
          /\ Resume("c1", "t1", r)
    \/ /\ ~store["t2"].exists
       /\ Invoke("c2", "t2", "q2")
    \/ \E r \in ResumeValues :
          /\ Quiet("t2") /\ Suspended("t2")
          /\ store["t2"].st.visited_nodes = <<"clarity">>
          /\ Resume("c2", "t2", r)
    \/ \E c \in AllCalls : Step(c)

SpecThreads == Init /\ [][NextThreads]_vars

\* Callers that may also resume a thread id nothing was ever invoked on.
NextUnknown ==
    \/ Next
    \/ \E r \in ResumeValues : ResumeUnknown("c1", "t1", r)

SpecUnknown == Init /\ [][NextUnknown]_vars

\* Every step of a call that is running is taken: graph.invoke runs its loop to
\* the end without waiting for anything but the stage it awaits.
FairSpec == Spec /\ WF_vars(Step("c1"))

-----------------------------------------------------------------------------
(* Observations used by the properties *)

Last(seq) == seq[Len(seq)]

IsPrefix(s, t) == Len(s) <= Len(t) /\ SubSeq(t, 1, Len(s)) = s

\* Index of the last clarity entry of a trace, 0 when there is none.
TurnStart(visited) ==
    LET at == {i \in 1..Len(visited) : visited[i] = "clarity"}
    IN  IF at = {} THEN 0 ELSE CHOOSE i \in at : \A j \in at : j <= i

\* Completed executions of `node` since the last execution of clarity.
TurnCount(visited, node) ==
    Cardinality({i \in (TurnStart(visited) + 1)..Len(visited) : visited[i] = node})

LowConfidence(st) == st.confidence_score # NoNum /\ st.confidence_score[1] < 60

\* The five per-turn fields hold their reset values.
TurnFieldsReset(st) ==
    /\ st.research_attempts = <<0>>
    /\ st.confidence_score = NoNum
    /\ st.validation_result = None
    /\ st.research_findings = None
    /\ st.final_response = None

\* The states a thread can be observed in: its checkpoint, and the state of a
\* call running on it.
ThreadStates == {store[t].st : t \in AllThreads} \cup {calls[c].st : c \in AllCalls}

-----------------------------------------------------------------------------
(* C1..C10 *)

\* C1: within one turn validator completes at most 3 times and research at
\* most 3 times; when synthesis is entered or has run after a low-confidence
\* research and an insufficient verdict, validator ran exactly 3 times.
C1_LoopBound ==
    \A st \in ThreadStates :
        /\ TurnCount(st.visited_nodes, "validator") <= 3
        /\ TurnCount(st.visited_nodes, "research") <= 3
        /\ ( /\ st.visited_nodes # <<>>
             /\ Last(st.visited_nodes) \in {"validator", "synthesis"}
             /\ LowConfidence(st)
             /\ st.validation_result = "insufficient"
             /\ \/ Last(st.visited_nodes) = "synthesis"
                \/ \E c \in AllCalls : Running(c) /\ calls[c].st = st
                                        /\ calls[c].next = "synthesis" )
           => /\ TurnCount(st.visited_nodes, "validator") = 3
              /\ TurnCount(st.visited_nodes, "research") = 3
              /\ st.research_attempts = <<3>>

C1_Witness ==
    /\ store["t1"].st.visited_nodes # <<>>
    /\ Last(store["t1"].st.visited_nodes) = "synthesis"
    /\ LowConfidence(store["t1"].st)
    /\ store["t1"].st.validation_result = "insufficient"
    /\ TurnCount(store["t1"].st.visited_nodes, "validator") = 3

\* C2: research_attempts, read as the code reads it, is always in 0..3.
C2_AttemptsInRange ==
    \A st \in ThreadStates : GetAttempts(st) >= 0 /\ GetAttempts(st) <= 3

C2_Witness ==
    /\ store["t1"].st.research_attempts = <<3>>
    /\ Running("c1") /\ calls["c1"].next = "synthesis"

\* C3: the state merged after clarity ran has research_attempts = 0 and
\* confidence_score, validation_result, research_findings, final_response
\* None, whatever they held before and however clarity was entered.
C3_TurnReset ==
    \A st \in ThreadStates :
        (st.visited_nodes # <<>> /\ Last(st.visited_nodes) = "clarity")
            => TurnFieldsReset(st)

\* clarity has just run again, re-entered by a resume, on a thread whose
\* earlier turn had gone through research and validator.
C3_Witness ==
    LET v == store["t1"].st.visited_nodes
    IN  /\ Len(v) >= 6
        /\ SubSeq(v, 1, 3) = <<"clarity", "research", "validator">>
        /\ SubSeq(v, Len(v) - 2, Len(v)) = <<"clarity", "clarity_interrupt", "clarity">>
        /\ store["t1"].st.clarity_status = "clear"

\* C4: every step leaves the message history of every thread a prefix of the
\* new one.
C4_AppendOnly ==
    [][\A t \in AllThreads :
          IsPrefix(store[t].st.messages, store'[t].st.messages)]_vars

\* A second turn has begun: the history holds the first turn's messages, the
\* same user message twice, and clarity has reset the turn.
C4_Witness ==
    LET m == store["t1"].st.messages
    IN  /\ Len(m) >= 4
        /\ m[1] = HumanMessage("q1")
        /\ m[Len(m)] = HumanMessage("q1")
        /\ m[2].role = "ai"
        /\ Last(store["t1"].st.visited_nodes) = "clarity"
        /\ Len(store["t1"].st.visited_nodes) > 1

\* A call is about to run clarity_interrupt again with a resume value.
Resuming(c) ==
    Running(c) /\ calls[c].next = "clarity_interrupt" /\ calls[c].resume # None

\* clarity has just answered clear in a call that re-entered it by a resume.
ClearAfterResume(c) ==
    LET v == calls[c].st.visited_nodes
    IN  /\ Running(c) /\ calls[c].next = "research"
        /\ Len(v) >= 3
        /\ SubSeq(v, Len(v) - 2, Len(v)) = <<"clarity", "clarity_interrupt", "clarity">>
        /\ calls[c].st.clarity_status = "clear"

\* C5: a resume with value R on a suspended thread makes clarity the next
\* stage, with query = R and the history at suspension followed by one user
\* message made of R; once clarity answers clear the call does not suspend
\* again and runs on to synthesis, unless a stage raises.
C5_ResumeRoundTrip ==
    /\ [][\A c \in AllCalls :
            Resuming(c) =>
                /\ Suspended(calls[c].thread)
                /\ calls'[c].pc = "run"
                /\ calls'[c].next = "clarity"
                /\ calls'[c].st.query = calls[c].resume
                /\ calls'[c].st.messages =
                      Append(store[calls[c].thread].st.messages,
                             HumanMessage(calls[c].resume))
                /\ store'[calls[c].thread].st = calls'[c].st]_vars
    /\ [][\A c \in AllCalls :
            (Running(c) /\ calls[c].st.clarity_status = "clear"
                        /\ calls[c].next # "clarity")
                => /\ calls'[c].result.kind # "suspended"
                   /\ calls'[c].next # "clarity_interrupt"]_vars
    /\ \A c \in {"c1"} :
            ClearAfterResume(c) ~>
                /\ ~Running(c)
                /\ \/ calls[c].result.kind = "error"
                   \/ /\ calls[c].result.kind = "final"
                      /\ Last(store["t1"].st.visited_nodes) = "synthesis"

C5_Witness ==
    /\ ClearAfterResume("c1")
    /\ calls["c1"].st.query = "r1"
    /\ Last(calls["c1"].st.messages) = HumanMessage("r1")
    /\ Len(calls["c1"].st.messages) = 2

\* This step starts a call `op` in slot c (it may return at once).
CallStarted(c, op) ==
    ~Running(c) /\ calls'[c] # calls[c] /\ calls'[c].op = op

\* This step is the end, by an exception, of the call running in slot c.
StageRaised(c) == Running(c) /\ calls'[c].result.kind = "error"

\* C6: while a thread is suspended its checkpoint changes only by the step
\* of a resume on that thread, and a call is suspended only by
\* clarity_interrupt.
C6_SuspendedUntilResume ==
    /\ [][\A t \in AllThreads :
            (Suspended(t) /\ store'[t] # store[t])
                => \E c \in AllCalls : Resuming(c) /\ calls[c].thread = t]_vars
    /\ [][\A c \in AllCalls :
            (Running(c) /\ calls'[c].result.kind = "suspended")
                => calls[c].next = "clarity_interrupt"]_vars

\* C7: a resume on a settled thread (its last turn ran to the end, nothing is
\* pending) and an invoke on a suspended thread end at once with an error and
\* leave the checkpoints as they were.
C7_MisuseRejected ==
    [][\A c \in AllCalls :
          LET t == calls'[c].thread
              misuse == \/ CallStarted(c, "invoke") /\ Suspended(t)
                        \/ CallStarted(c, "resume") /\ store[t].exists
                                                    /\ store[t].next = "END"
          IN  misuse => /\ store' = store
                        /\ calls'[c].pc = "idle"
                        /\ calls'[c].result.kind = "error"]_vars

\* C8: a stage that fails (clarity or validator without a structured answer,
\* research or synthesis with an answer that is no AIMessage or is empty)
\* ends the call with an error; the step saves nothing, so the checkpoint is
\* still the state the failed stage was given, with that stage pending: the
\* state saved by the stage before it, or the input saved by the invoke when
\* its first stage fails. No empty findings or final response are ever
\* stored and nothing runs in the slot after the error.
C8_StageFailureAtomic ==
    /\ [][\A c \in AllCalls :
            StageRaised(c) =>
                /\ store' = store
                /\ ~Running(c)'
                /\ calls[c].next \in {"clarity", "research", "validator", "synthesis"}
                /\ calls'[c].result.payload = None
                /\ store[calls[c].thread].st = calls[c].st
                /\ store[calls[c].thread].interrupt = None
                /\ store[calls[c].thread].next = calls[c].next]_vars
    /\ [][\A c \in AllCalls :
            (Running(c) /\ calls[c].next = "research" /\ calls'[c].pc = "run")
                => calls'[c].st.research_findings \notin {None, ""}]_vars
    /\ [][\A c \in AllCalls :
            (Running(c) /\ calls[c].next = "synthesis"
                        /\ calls'[c].result.kind = "final")
                => store'[calls[c].thread].st.final_response \notin {None, ""}]_vars
    /\ [][\A c \in AllCalls :
            (calls[c].result.kind = "error" /\ calls'[c] # calls[c])
                => CallStarted(c, "invoke") \/ CallStarted(c, "resume")]_vars

\* clarity raised in the second turn of a thread: the checkpoint holds the
\* state synthesis saved and the input of the failed call, clarity is pending
\* and the answer of the first turn is still there.
C8_Witness ==
    /\ ~Running("c1") /\ calls["c1"].result.kind = "error"
    /\ calls["c1"].op = "invoke"
    /\ store["t1"].next = "clarity"
    /\ store["t1"].st.visited_nodes = <<"clarity", "research", "validator", "synthesis">>
    /\ Len(store["t1"].st.messages) = 5
    /\ Last(store["t1"].st.messages).role = "human"
    /\ store["t1"].st.final_response # None

\* C9: a call that takes a step finds in the store the checkpoint it read or
\* wrote last: no other call on the thread has written in between.
C9_Serialized ==
    [][\A c \in AllCalls :
          (Running(c) /\ calls'[c] # calls[c])
              => store[calls[c].thread].st = calls[c].st]_vars

\* C10: after research the next stage is validator when confidence_score is
\* None or below 6.0 and synthesis from 6.0 on; 5.9 goes to validator and 6.0
\* to synthesis.
C10_ConfidenceGate ==
    /\ [][\A c \in AllCalls :
            (Running(c) /\ calls[c].next = "research" /\ calls'[c].pc = "run")
                => LET score == calls'[c].st.confidence_score
                   IN  /\ calls'[c].next =
                             IF score = NoNum \/ score[1] < 60
                                 THEN "validator" ELSE "synthesis"
                       /\ store'[calls[c].thread].next = calls'[c].next]_vars
    /\ [](/\ route_after_research([EmptyState EXCEPT !.confidence_score = NoNum])
                = "validator"
          /\ route_after_research([EmptyState EXCEPT !.confidence_score = <<59>>])
                = "validator"
          /\ route_after_research([EmptyState EXCEPT !.confidence_score = <<60>>])
                = "synthesis")

\* A second research of a turn scored 6.0 and goes to synthesis, after an
\* earlier one of the turn had gone to validator.
C10_Witness ==
    /\ Running("c1") /\ calls["c1"].next = "synthesis"
    /\ calls["c1"].st.confidence_score = <<60>>
    /\ Last(calls["c1"].st.visited_nodes) = "research"
    /\ TurnCount(calls["c1"].st.visited_nodes, "validator") = 1

-----------------------------------------------------------------------------
(* C11..C20 *)

\* States handed to a routing function directly, as the unit tests do: any
\* verdict, any counter, the counter present or absent.
RoutingVerdicts == {None, "sufficient", "insufficient"}
RoutingAttempts == {NoNum} \cup {<<n>> : n \in -1..5}

\* C11: after validator the next stage is research exactly when the verdict
\* is insufficient and research_attempts, read as 0 when absent, is below 3;
\* otherwise it is synthesis.  Checked on every validator step of the graph
\* and on the routing function applied to every verdict and counter.
C11_RouteAfterValidation ==
    /\ [][\A c \in AllCalls :
            (Running(c) /\ calls[c].next = "validator" /\ calls'[c].pc = "run")
                => LET st == calls'[c].st
                   IN  /\ calls'[c].next \in {"research", "synthesis"}
                       /\ calls'[c].next = "research"
                             <=> /\ st.validation_result = "insufficient"
                                 /\ st.research_attempts \in {<<0>>, <<1>>, <<2>>}
                       /\ store'[calls[c].thread].next = calls'[c].next]_vars
    /\ [](\A v \in RoutingVerdicts, a \in RoutingAttempts :
            LET st == [EmptyState EXCEPT !.validation_result = v,
                                         !.research_attempts = a]
                n == IF a = NoNum THEN 0 ELSE a[1]
            IN  route_after_validation(st) =
                    IF v = "insufficient" /\ n < 3 THEN "research" ELSE "synthesis")

\* The third validator of a turn answered insufficient and the run goes on to
\* synthesis, after two earlier ones had sent it back to research.
C11_Witness ==
    /\ Running("c1") /\ calls["c1"].next = "synthesis"
    /\ Last(calls["c1"].st.visited_nodes) = "validator"
    /\ calls["c1"].st.validation_result = "insufficient"
    /\ calls["c1"].st.research_attempts = <<3>>
    /\ TurnCount(calls["c1"].st.visited_nodes, "research") = 3

RoutingStatuses == {None, "", "clear", "needs_clarification", "unsure"}

\* C12: after clarity the next stage is clarity_interrupt exactly when
\* clarity_status is needs_clarification; for clear, None and any other value
\* it is research.  Checked on every clarity step of the graph and on the
\* routing function applied to every status.
C12_RouteAfterClarity ==
    /\ [][\A c \in AllCalls :
            (Running(c) /\ calls[c].next = "clarity" /\ calls'[c].pc = "run")
                => /\ calls'[c].next \in {"clarity_interrupt", "research"}
                   /\ calls'[c].next = "clarity_interrupt"
                         <=> calls'[c].st.clarity_status = "needs_clarification"
                   /\ store'[calls[c].thread].next = calls'[c].next]_vars
    /\ [](\A s \in RoutingStatuses :
            LET st == [EmptyState EXCEPT !.clarity_status = s]
            IN  /\ route_after_clarity(st) =
                      IF s = "needs_clarification" THEN "interrupt" ELSE "research"
                /\ NextNode("clarity", st) =
                      IF s = "needs_clarification"
                          THEN "clarity_interrupt" ELSE "research")

\* clarity answered with a status that is neither clear nor
\* needs_clarification and the run goes on to research.
C12_Witness ==
    /\ Running("c1") /\ calls["c1"].next = "research"
    /\ Last(calls["c1"].st.visited_nodes) = "clarity"
    /\ calls["c1"].st.clarity_status = "unsure"

\* Executions of `node` recorded in the whole trace of a thread.
TotalCount(visited, node) ==
    Cardinality({i \in 1..Len(visited) : visited[i] = node})

\* C13: in every checkpoint and every state of a running call,
\* research_attempts (0 while absent) is the number of validator executions
\* completed since the last execution of clarity on the thread.
C13_AttemptsCountValidations ==
    \A st \in ThreadStates :
        GetAttempts(st) = TurnCount(st.visited_nodes, "validator")

\* A later turn of a thread has completed its first validator: the counter is
\* 1 although validator ran in an earlier turn as well.
C13_Witness ==
    /\ store["t1"].st.research_attempts = <<1>>
    /\ Last(store["t1"].st.visited_nodes) = "validator"
    /\ TotalCount(store["t1"].st.visited_nodes, "validator") >= 2
    /\ TotalCount(store["t1"].st.visited_nodes, "clarity") >= 2

\* The call of slot c has returned (graph.invoke gave its result or raised).
Returned(c) == ~Running(c) /\ calls[c].op # "none"

\* C14: a call that has returned gave a final state, a suspension or an
\* error, and nothing else; the state returned as final, which is the
\* checkpoint of the thread, has a non-empty final_response and synthesis as
\* its last visited node.
C14_NoPartialFinal ==
    \A c \in AllCalls :
        /\ Running(c) => calls[c].result = NoResult
        /\ Returned(c) =>
              /\ calls[c].result.kind \in {"final", "suspended", "error"}
              /\ calls[c].result.kind = "final" =>
                    LET st == store[calls[c].thread].st
                    IN  /\ st.final_response \notin {None, ""}
                        /\ st.visited_nodes # <<>>
                        /\ Last(st.visited_nodes) = "synthesis"

\* A resume returned a final state: the turn had been suspended, was resumed
\* and ran to the end of synthesis.
C14_Witness ==
    /\ Returned("c1") /\ calls["c1"].op = "resume"
    /\ calls["c1"].result.kind = "final"
    /\ store["t1"].st.final_response = "text"
    /\ TotalCount(store["t1"].st.visited_nodes, "clarity_interrupt") = 1
    /\ TotalCount(store["t1"].st.visited_nodes, "synthesis") = 1

\* This step is clarity_interrupt suspending the call of slot c.
Suspends(c) ==
    /\ Running(c) /\ calls[c].next = "clarity_interrupt"
    /\ calls'[c].result.kind = "suspended"

\* C15: the checkpoint of a thread holds a pending interrupt exactly when the
\* last call on the thread returned a suspension, or a resume has started and
\* clarity_interrupt has not run yet; the interrupt appears only in the step
\* in which clarity_interrupt suspends, the step of the resumed
\* clarity_interrupt removes it, and it is absent whenever a call returned a
\* final state.
C15_PendingIffSuspended ==
    /\ [](\A c \in {"c1"} :
            LET t == "t1"
            IN  /\ ~Running(c) => (Suspended(t) <=> calls[c].result.kind = "suspended")
                /\ Running(c) => (Suspended(t) <=> Resuming(c))
                /\ (Returned(c) /\ calls[c].result.kind = "final")
                      => store[t].interrupt = None)
    /\ [][\A t \in AllThreads :
            (~Suspended(t) /\ Suspended(t)')
                <=> \E c \in AllCalls : calls[c].thread = t /\ Suspends(c)]_vars
    /\ [][\A c \in AllCalls :
            (Resuming(c) /\ calls'[c] # calls[c])
                => ~Suspended(calls[c].thread)']_vars

\* A thread whose earlier turn ended at synthesis is suspended in a later turn.
C15_Witness ==
    /\ Returned("c1") /\ calls["c1"].result.kind = "suspended"
    /\ Suspended("t1")
    /\ store["t1"].next = "clarity_interrupt"
    /\ TotalCount(store["t1"].st.visited_nodes, "synthesis") >= 1

\* The messages the stages of a trace append, in the order of the trace, for a
\* trace without clarity_interrupt: clarity appends none, research its
\* findings, validator its critique, synthesis the answer of the model.
RECURSIVE StageMessages(_)
StageMessages(visited) ==
    IF visited = <<>> THEN <<>>
    ELSE LET node == Head(visited)
             own == CASE node = "research" -> <<AIMessage("text")>>
                      [] node = "validator" -> <<AIMessage("critique")>>
                      [] node = "synthesis" -> <<AIMessage(" text ")>>
                      [] OTHER -> <<>>
         IN  own \o StageMessages(Tail(visited))

\* The number of user messages of a history.
HumanCount(messages) ==
    Cardinality({i \in 1..Len(messages) : messages[i].role = "human"})

\* A thread is settled when its last turn ran to the end.
Settled(t) == store[t].exists /\ store[t].next = "END"

\* C16: an invoke on a settled thread hands to clarity the messages of the
\* checkpoint followed by the new input message; when the settled thread has
\* had one input and no suspension so far, these are the first input, the
\* messages of research, validator and synthesis in the order the stages
\* ran, and the second input, and the clarity step of the call runs on them.
C16_MultiTurnHistory ==
    /\ [][\A c \in AllCalls :
            (CallStarted(c, "invoke") /\ Settled(calls'[c].thread))
                => LET t == calls'[c].thread
                   IN  /\ calls'[c].pc = "run" /\ calls'[c].next = "clarity"
                       /\ Len(calls'[c].st.messages) = Len(store[t].st.messages) + 1
                       /\ IsPrefix(store[t].st.messages, calls'[c].st.messages)
                       /\ Last(calls'[c].st.messages)
                             = HumanMessage(calls'[c].st.query)]_vars
    /\ [][\A c \in AllCalls :
            LET t == calls'[c].thread
                v == store[t].st.visited_nodes
            IN  ( /\ CallStarted(c, "invoke") /\ Settled(t)
                  /\ HumanCount(store[t].st.messages) = 1
                  /\ TotalCount(v, "clarity_interrupt") = 0 )
                => \E q1 \in Queries :
                      calls'[c].st.messages
                          = <<HumanMessage(q1)>> \o StageMessages(v)
                                \o <<HumanMessage(calls'[c].st.query)>>]_vars
    /\ [][\A c \in AllCalls :
            (Running(c) /\ calls[c].op = "invoke" /\ calls[c].next = "clarity"
                        /\ calls'[c].pc = "run")
                => calls'[c].st.messages = calls[c].st.messages]_vars

\* The second invoke on a thread whose first turn went through clarity,
\* research, validator and synthesis is about to run clarity.
C16_Witness ==
    /\ Running("c1") /\ calls["c1"].op = "invoke" /\ calls["c1"].next = "clarity"
    /\ calls["c1"].st.visited_nodes = <<"clarity", "research", "validator", "synthesis">>
    /\ calls["c1"].st.messages =
          << HumanMessage("q1"), AIMessage("text"), AIMessage("critique"),
             AIMessage(" text "), HumanMessage("q2") >>

\* C17: when an invoke on a thread without earlier history returned a
\* suspension, visited_nodes of the state returned, which is the checkpoint,
\* is clarity alone.
C17_FirstSuspensionTrace ==
    \A c \in AllCalls :
        LET t == calls[c].thread
        IN  ( /\ Returned(c) /\ calls[c].op = "invoke"
              /\ calls[c].result.kind = "suspended"
              /\ Len(store[t].st.messages) = 1 )
            => /\ store[t].st.visited_nodes = <<"clarity">>
               /\ store[t].st.clarity_status = "needs_clarification"

C17_Witness ==
    /\ Returned("c1") /\ calls["c1"].op = "invoke"
    /\ calls["c1"].result.kind = "suspended"
    /\ store["t1"].st.messages = <<HumanMessage("q1")>>
    /\ store["t1"].st.visited_nodes = <<"clarity">>
    /\ Suspended("t1")

\* C18 as stated: the checkpoint of a suspended thread has the suspending
\* stage, clarity_interrupt, as the last entry of visited_nodes.
C18_SuspendAppendsStage ==
    \A t \in AllThreads :
        Suspended(t) =>
            /\ store[t].st.visited_nodes # <<>>
            /\ Last(store[t].st.visited_nodes) = "clarity_interrupt"

\* C18 amended: the step in which clarity_interrupt suspends leaves the
\* state of the checkpoint, visited_nodes included, as clarity saved it, so
\* the last entry of a suspended thread is clarity; clarity_interrupt is
\* appended by the step that re-runs the node for a resume.
C18_SuspendAppendsNothing ==
    /\ [][\A c \in AllCalls :
            Suspends(c) =>
                /\ store'[calls[c].thread].st = store[calls[c].thread].st
                /\ store'[calls[c].thread].st = calls[c].st]_vars
    /\ [](\A t \in AllThreads :
            Suspended(t) =>
                /\ store[t].st.visited_nodes # <<>>
                /\ Last(store[t].st.visited_nodes) = "clarity")
    /\ [][\A c \in AllCalls :
            (Resuming(c) /\ calls'[c] # calls[c])
                => store'[calls[c].thread].st.visited_nodes
                      = Append(store[calls[c].thread].st.visited_nodes,
                               "clarity_interrupt")]_vars

\* A thread suspended for the second time in a turn: the first suspension
\* entered the trace when it was resumed, the second has not.
C18_Witness ==
    /\ Suspended("t1") /\ Returned("c1")
    /\ store["t1"].st.visited_nodes = <<"clarity", "clarity_interrupt", "clarity">>

\* C19 as stated: the payload of a suspension is the clarification_question
\* of the checkpoint, as clarity stored it.
C19_PayloadIsStoredQuestion ==
    \A c \in AllCalls :
        (Returned(c) /\ calls[c].result.kind = "suspended")
            => calls[c].result.payload
                  = store[calls[c].thread].st.clarification_question

\* C19 amended: the payload of a suspension is the clarification_question
\* clarity stored when that is a non-empty text, and the fixed default
\* question when clarity stored None or an empty text; it is also what the
\* checkpoint holds as pending interrupt.
C19_PayloadIsQuestionOrDefault ==
    \A c \in AllCalls :
        (Returned(c) /\ calls[c].result.kind = "suspended")
            => LET st == store[calls[c].thread].st
                   stored == st.clarification_question
               IN  /\ Last(st.visited_nodes) = "clarity"
                   /\ stored \notin {None, ""} => calls[c].result.payload = stored
                   /\ stored \in {None, ""}
                         => calls[c].result.payload = "Please clarify"
                   /\ store[calls[c].thread].interrupt = calls[c].result.payload

\* clarity asked for a clarification without giving a question: the caller
\* gets the default question, the checkpoint holds no question.
C19_Witness ==
    /\ Returned("c1") /\ calls["c1"].result.kind = "suspended"
    /\ calls["c1"].result.payload = "Please clarify"
    /\ store["t1"].st.clarification_question = None
    /\ store["t1"].st.clarity_status = "needs_clarification"

\* The contents of the user messages of a history.
HumanContents(messages) ==
    {messages[i].content : i \in {j \in 1..Len(messages) : messages[j].role = "human"}}

\* C20: a step of a call on one thread id (the start of an invoke or of a
\* resume, a stage, a suspension, a stage failure) leaves the checkpoint of
\* every other thread id and the call running on it as they were, however
\* the steps of the two threads interleave; what a thread holds comes from
\* its own calls alone.
C20_ThreadIndependence ==
    /\ [][\A c \in AllCalls :
            calls'[c] # calls[c] =>
                /\ \A t \in AllThreads \ {calls'[c].thread} : store'[t] = store[t]
                /\ \A d \in AllCalls \ {c} : calls'[d] = calls[d]]_vars
    /\ [][\A t \in AllThreads :
            store'[t] # store[t] =>
                \E c \in AllCalls : calls'[c] # calls[c] /\ calls'[c].thread = t]_vars
    /\ [](/\ HumanContents(store["t1"].st.messages) \subseteq {"q1", "r1"}
          /\ HumanContents(store["t2"].st.messages) \subseteq {"q2", "r1"}
          /\ store["t1"].st.query \in {None, "q1", "r1"}
          /\ store["t2"].st.query \in {None, "q2", "r1"}
          /\ GetAttempts(store["t1"].st)
                = TurnCount(store["t1"].st.visited_nodes, "validator")
          /\ GetAttempts(store["t2"].st)
                = TurnCount(store["t2"].st.visited_nodes, "validator"))

\* A resumed call on t1 ended with a stage failure after its validator ran,
\* while t2 stays suspended on its first input.
C20_Witness ==
    /\ Returned("c1") /\ calls["c1"].op = "resume"
    /\ calls["c1"].result.kind = "error"
    /\ TotalCount(store["t1"].st.visited_nodes, "validator") >= 1
    /\ Returned("c2") /\ calls["c2"].result.kind = "suspended"
    /\ Suspended("t2")
    /\ store["t2"].st.messages = <<HumanMessage("q2")>>

-----------------------------------------------------------------------------
(* C21..C30 *)

\* C21: a resume on a thread id that has no checkpoint ends at once with an
\* error, runs no stage and leaves the thread without a checkpoint.
C21_UnknownThreadRejected ==
    [][\A c \in AllCalls :
          (CallStarted(c, "resume") /\ ~store[calls'[c].thread].exists)
              => /\ store' = store
                 /\ calls'[c].pc = "idle"
                 /\ calls'[c].result.kind = "error"]_vars

\* C22: final_response is None in every checkpoint and call state whose last
\* executed stage is clarity, clarity_interrupt, research or validator, so in
\* every suspended thread and everywhere in a turn between clarity and
\* synthesis; a state that holds a final_response has synthesis as its last
\* executed stage, and the step that made it present was a synthesis step.
C22_FinalOnlyAtTermination ==
    /\ [](\A st \in ThreadStates :
            /\ (st.visited_nodes # <<>> /\ Last(st.visited_nodes) # "synthesis")
                  => st.final_response = None
            /\ st.final_response # None
                  => (st.visited_nodes # <<>> /\ Last(st.visited_nodes) = "synthesis"))
    /\ [](\A t \in AllThreads : Suspended(t) => store[t].st.final_response = None)
    /\ [][\A t \in AllThreads :
            (store[t].st.final_response = None /\ store'[t].st.final_response # None)
                => \E c \in AllCalls : /\ Running(c) /\ calls[c].thread = t
                                        /\ calls[c].next = "synthesis"]_vars

\* A later turn is suspended: the final response of the turn before it is
\* gone from the checkpoint.
C22_Witness ==
    /\ Suspended("t1")
    /\ TotalCount(store["t1"].st.visited_nodes, "synthesis") >= 1
    /\ store["t1"].st.final_response = None
    /\ Last(store["t1"].st.visited_nodes) = "clarity"

\* C23: in every checkpoint and call state clarification_question is None
\* unless clarity_status is needs_clarification.
C23_QuestionOnlyWhenNeeded ==
    \A st \in ThreadStates :
        st.clarification_question # None
            => st.clarity_status = "needs_clarification"

\* C24: in every checkpoint and call state confidence_score is None or lies
\* between 0 and 10 (0 and 100 tenths).
C24_ConfidenceInRange ==
    \A st \in ThreadStates :
        st.confidence_score # NoNum
            => (st.confidence_score[1] >= 0 /\ st.confidence_score[1] <= 100)

\* C25: once clarity answered clear with a company, last_discussed_company
\* is that company for the rest of the turn; a clarity step that answers
\* needs_clarification and every research, validator and synthesis step
\* leave last_discussed_company as it was, and no step sets it back to None.
C25_LastCompanySticky ==
    /\ [](\A st \in ThreadStates :
            ( /\ st.visited_nodes # <<>>
              /\ st.clarity_status = "clear" /\ st.company_name # None )
            => st.last_discussed_company = st.company_name)
    /\ [][\A c \in AllCalls :
            ( /\ Running(c) /\ calls'[c].pc = "run"
              /\ \/ calls[c].next \in {"research", "validator", "synthesis"}
                 \/ /\ calls[c].next = "clarity"
                    /\ calls'[c].st.clarity_status = "needs_clarification" )
            => calls'[c].st.last_discussed_company
                  = calls[c].st.last_discussed_company]_vars
    /\ [][\A t \in AllThreads :
            store[t].st.last_discussed_company # None
                => store'[t].st.last_discussed_company # None]_vars

\* This step is a stage of the call of slot c that completed and left the
\* call running.
StageDone(c, node) ==
    Running(c) /\ calls[c].next = node /\ calls'[c].pc = "run"

\* C26: the stage that runs next is the one the routing function of the
\* completed stage names for the state after the stage's update was merged:
\* a validator that raises research_attempts from 2 to 3 with an
\* insufficient verdict is followed by synthesis, one that raises it from 0
\* or 1 by research; clarity and research are routed on the status and the
\* score they have just written, whatever the state held before.
C26_RoutingSeesMergedState ==
    [][\A c \in AllCalls :
          LET old == calls[c].st
              new == calls'[c].st
          IN  /\ StageDone(c, "validator") =>
                    /\ new.research_attempts = <<GetAttempts(old) + 1>>
                    /\ calls'[c].next = route_after_validation(new)
                    /\ (new.validation_result = "insufficient"
                            /\ old.research_attempts = <<2>>)
                          => calls'[c].next = "synthesis"
                    /\ (new.validation_result = "insufficient"
                            /\ old.research_attempts \in {<<0>>, <<1>>})
                          => calls'[c].next = "research"
              /\ StageDone(c, "research") =>
                    /\ calls'[c].next = route_after_research(new)
                    /\ calls'[c].next = "synthesis" <=> new.confidence_score[1] >= 60
              /\ StageDone(c, "clarity") =>
                    calls'[c].next = "clarity_interrupt"
                        <=> new.clarity_status = "needs_clarification"]_vars

\* The third validator of a turn has run on a state that still held 2
\* attempts and an insufficient verdict: the run goes to synthesis.
C26_Witness ==
    /\ Running("c1") /\ calls["c1"].next = "synthesis"
    /\ calls["c1"].st.validation_result = "insufficient"
    /\ calls["c1"].st.research_attempts = <<3>>
    /\ TurnCount(calls["c1"].st.visited_nodes, "validator") = 3
    /\ LowConfidence(calls["c1"].st)
    /\ store["t1"].next = "synthesis"

\* C27: research_attempts of a checkpoint changes only in a validator step,
\* which raises it by exactly 1, and in a clarity step, which sets it to 0;
\* every validator step raises it and every clarity step leaves it 0.  All
\* other steps (research, synthesis, clarity_interrupt suspending or
\* resumed, the input merge of invoke, the start of a resume, a stage that
\* raises) leave it as it was.
C27_AttemptsFrame ==
    /\ [][\A t \in AllThreads :
            LET old == store[t].st.research_attempts
                new == store'[t].st.research_attempts
            IN  new # old =>
                  \E c \in AllCalls :
                      /\ Running(c) /\ calls[c].thread = t
                      /\ \/ calls[c].next = "validator" /\ new = <<GetAttempts(store[t].st) + 1>>
                         \/ calls[c].next = "clarity" /\ new = <<0>>]_vars
    /\ [][\A c \in AllCalls :
            /\ StageDone(c, "validator") =>
                  /\ calls'[c].st.research_attempts
                        = <<GetAttempts(calls[c].st) + 1>>
                  /\ store'[calls[c].thread].st.research_attempts
                        = calls'[c].st.research_attempts
            /\ StageDone(c, "clarity") =>
                  /\ calls'[c].st.research_attempts = <<0>>
                  /\ store'[calls[c].thread].st.research_attempts = <<0>>
            /\ (StageDone(c, "research") \/ StageDone(c, "clarity_interrupt"))
                  => calls'[c].st.research_attempts = calls[c].st.research_attempts]_vars

\* The second research of a turn has completed: the counter still shows the
\* one validator execution before it.
C27_Witness ==
    /\ Running("c1") /\ calls["c1"].next = "validator"
    /\ Last(calls["c1"].st.visited_nodes) = "research"
    /\ TurnCount(calls["c1"].st.visited_nodes, "research") = 2
    /\ calls["c1"].st.research_attempts = <<1>>

\* The fields each stage names in the update it returns.
WrittenBy(node) ==
    CASE node = "research" ->
            {"messages", "research_findings", "confidence_score", "visited_nodes"}
      [] node = "validator" ->
            {"messages", "validation_result", "research_attempts", "visited_nodes"}
      [] node = "synthesis" ->
            {"messages", "final_response", "visited_nodes"}
      [] node = "clarity_interrupt" ->
            {"messages", "query", "visited_nodes"}
      [] node = "clarity" ->
            DOMAIN EmptyState \ {"messages", "last_discussed_company"}

\* C28: a stage step leaves every field its update does not name as it was:
\* research, validator and synthesis keep query, company_name and
\* clarity_status; validator keeps research_findings and confidence_score;
\* synthesis keeps research_attempts, validation_result, research_findings
\* and confidence_score.  Compared are the state the stage ran on and the
\* checkpoint saved by its step.
C28_PartialUpdateFrame ==
    [][\A c \in AllCalls :
          (Running(c) /\ calls'[c] # calls[c]) =>
              LET old == calls[c].st
                  new == store'[calls[c].thread].st
                  node == calls[c].next
              IN  /\ \A k \in DOMAIN old \ WrittenBy(node) : new[k] = old[k]
                  /\ node \in {"research", "validator", "synthesis"} =>
                        /\ new.query = old.query
                        /\ new.company_name = old.company_name
                        /\ new.clarity_status = old.clarity_status
                  /\ node = "validator" =>
                        /\ new.research_findings = old.research_findings
                        /\ new.confidence_score = old.confidence_score
                  /\ node = "synthesis" =>
                        /\ new.research_attempts = old.research_attempts
                        /\ new.validation_result = old.validation_result
                        /\ new.research_findings = old.research_findings
                        /\ new.confidence_score = old.confidence_score]_vars

\* synthesis has completed after a validator loop: the checkpoint still holds
\* what clarity, research and validator had written.
C28_Witness ==
    LET st == store["t1"].st
    IN  /\ Returned("c1") /\ calls["c1"].result.kind = "final"
        /\ st.final_response = "text"
        /\ st.query = "q1" /\ st.company_name = "Acme" /\ st.clarity_status = "clear"
        /\ st.research_findings = "text" /\ st.confidence_score = <<59>>
        /\ st.validation_result = "sufficient" /\ st.research_attempts = <<2>>

\* The entries of a trace from its last clarity entry on (the whole trace
\* when it has none).
TurnTrace(visited) ==
    IF TurnStart(visited) = 0 THEN visited
    ELSE SubSeq(visited, TurnStart(visited), Len(visited))

\* C29: every call ends, given that every stage it awaits returns; the
\* stages executed since the last clarity are at most 3 research, 3
\* validator and 1 synthesis, 8 with the clarity itself, and a resume adds
\* one clarity_interrupt before that clarity; a call runs clarity at most
\* once, since after clarity it reaches clarity again only through a
\* suspension, which ends the call; a call that has ended returned a final
\* state from synthesis, a suspension or an error; and the call does not run
\* on after synthesis.
C29_Termination ==
    /\ Running("c1") ~> ~Running("c1")
    /\ [](\A st \in ThreadStates :
            /\ TurnCount(st.visited_nodes, "research") <= 3
            /\ TurnCount(st.visited_nodes, "validator") <= 3
            /\ TurnCount(st.visited_nodes, "synthesis") <= 1
            /\ TurnCount(st.visited_nodes, "clarity_interrupt") <= 1
            /\ Len(TurnTrace(st.visited_nodes)) <= 8)
    /\ [](\A c \in AllCalls :
            Returned(c) =>
                /\ calls[c].result.kind \in {"final", "suspended", "error"}
                /\ calls[c].result.kind = "final"
                      => Last(store[calls[c].thread].st.visited_nodes) = "synthesis")
    /\ [][\A c \in AllCalls :
            /\ StageDone(c, "clarity") =>
                  /\ calls'[c].next \in {"clarity_interrupt", "research"}
                  /\ calls'[c].resume = None
            /\ (Running(c) /\ calls[c].next = "clarity_interrupt"
                            /\ calls[c].resume = None /\ calls'[c] # calls[c])
                  => (~Running(c)' /\ calls'[c].result.kind = "suspended")
            /\ (StageDone(c, "research") \/ StageDone(c, "validator"))
                  => calls'[c].next \in {"research", "validator", "synthesis"}
            /\ (Running(c) /\ calls[c].next = "synthesis" /\ calls'[c] # calls[c])
                  => (~Running(c)' /\ calls'[c].result.kind \in {"final", "error"})]_vars

\* The longest turn has ended: clarity, three rounds of research and
\* validator, synthesis.
C29_Witness ==
    /\ Returned("c1") /\ calls["c1"].result.kind = "final"
    /\ store["t1"].st.visited_nodes =
          << "clarity", "research", "validator", "research", "validator",
             "research", "validator", "synthesis" >>

\* C30: an invoke starts a run whose pending stage is clarity, on a thread
\* without checkpoint, on a settled one and on one left suspended or failed;
\* an invoke call that is past clarity shows a trace that runs from a clarity
\* entry without a synthesis after it, so research, validator and synthesis
\* run in an invoke call only after the clarity of that call; the first step
\* of the call is the clarity stage, which completes or raises with clarity
\* left pending.
C30_InvokeStartsAtClarity ==
    /\ [][\A c \in AllCalls :
            CallStarted(c, "invoke") =>
                /\ calls'[c].pc = "run"
                /\ calls'[c].next = "clarity"
                /\ store'[calls'[c].thread].next = "clarity"
                /\ store'[calls'[c].thread].st = calls'[c].st]_vars
    /\ [](\A c \in AllCalls :
            (Running(c) /\ calls[c].op = "invoke" /\ calls[c].next # "clarity")
                => LET turn == TurnTrace(calls[c].st.visited_nodes)
                   IN  /\ turn # <<>> /\ Head(turn) = "clarity"
                       /\ TotalCount(turn, "synthesis") = 0
                       /\ TotalCount(turn, "clarity_interrupt") = 0
                       /\ calls[c].st.research_attempts
                             = <<TotalCount(turn, "validator")>>)
    /\ [][\A c \in AllCalls :
            (Running(c) /\ calls[c].op = "invoke" /\ calls[c].next = "clarity")
                => \/ calls'[c] = calls[c]
                   \/ StageDone(c, "clarity")
                   \/ StageRaised(c) /\ store'[calls[c].thread].next = "clarity"]_vars

\* An invoke on a thread that completed an earlier turn has run clarity and is
\* about to run research.
C30_Witness ==
    /\ Running("c1") /\ calls["c1"].op = "invoke" /\ calls["c1"].next = "research"
    /\ Last(calls["c1"].st.visited_nodes) = "clarity"
    /\ TotalCount(calls["c1"].st.visited_nodes, "synthesis") >= 1

-----------------------------------------------------------------------------
(* C31..C35 *)

\* This step is a stage of the call of slot c that completed with an update:
\* the call goes on or returns its final state.
StageCompleted(c) ==
    /\ Running(c)
    /\ \/ calls'[c].pc = "run" /\ calls'[c] # calls[c]
       \/ calls'[c].result.kind = "final"

\* C31: the checkpoint saved by a completed stage has visited_nodes of the
\* state the stage ran on followed by the name of that stage, once; a step
\* that completes no stage (a suspension, a stage that raises, the start of
\* a call) leaves visited_nodes as it is, so the trace is never shortened or
\* reset, across turns as well.
C31_VisitedAppendsOwnName ==
    /\ [][\A c \in AllCalls :
            StageCompleted(c) =>
                store'[calls[c].thread].st.visited_nodes
                    = Append(calls[c].st.visited_nodes, calls[c].next)]_vars
    /\ [][\A t \in AllThreads :
            /\ IsPrefix(store[t].st.visited_nodes, store'[t].st.visited_nodes)
            /\ Len(store'[t].st.visited_nodes) <= Len(store[t].st.visited_nodes) + 1
            /\ store'[t].st.visited_nodes # store[t].st.visited_nodes
                  => \E c \in AllCalls : calls[c].thread = t /\ StageCompleted(c)]_vars

\* The second turn of a thread is under way: the trace of the first turn is
\* still there, followed by the stages of the second.
C31_Witness ==
    store["t1"].st.visited_nodes =
        <<"clarity", "research", "synthesis", "clarity", "research", "validator">>

\* The stages that may stand right before an entry of the trace.
WalkPredecessors(node) ==
    CASE node = "validator" -> {"research"}
      [] node = "synthesis" -> {"research", "validator"}
      [] node = "research" -> {"clarity", "validator"}
      [] node = "clarity_interrupt" -> {"clarity"}
      [] node = "clarity" ->
            {"synthesis", "clarity_interrupt", "clarity", "research", "validator"}

IsWalk(visited) ==
    /\ visited # <<>> => Head(visited) = "clarity"
    /\ \A i \in 2..Len(visited) : visited[i - 1] \in WalkPredecessors(visited[i])

\* C32: visited_nodes of every checkpoint and call state is a walk of the
\* graph: it starts with clarity, validator follows research, synthesis
\* follows research or validator, research follows clarity or validator,
\* clarity_interrupt follows clarity; clarity follows synthesis or
\* clarity_interrupt, and follows clarity, research or validator only when
\* new input was merged on top of a turn that was left suspended or failed:
\* it then runs on a history that ends with the user message of that input,
\* in the invoke that brought it or in a resume that re-runs a clarity which
\* had raised.
C32_VisitedIsWalk ==
    /\ [](\A st \in ThreadStates : IsWalk(st.visited_nodes))
    /\ [][\A c \in AllCalls :
            ( /\ StageDone(c, "clarity")
              /\ calls[c].st.visited_nodes # <<>>
              /\ Last(calls[c].st.visited_nodes) \in {"clarity", "research", "validator"} )
            => Last(calls[c].st.messages) = HumanMessage(calls[c].st.query)]_vars

\* synthesis raised after a validator, the caller sent new input, clarity
\* raised, and a resume has run the pending clarity: clarity stands right
\* after validator in the trace, written by a resume call.
C32_Witness ==
    LET v == store["t1"].st.visited_nodes
    IN  /\ Running("c1") /\ calls["c1"].op = "resume"
        /\ Len(v) >= 4
        /\ SubSeq(v, Len(v) - 1, Len(v)) = <<"validator", "clarity">>
        /\ TotalCount(v, "synthesis") = 0
        /\ TotalCount(v, "clarity_interrupt") = 0

\* C33: the checkpoint of a suspended thread has clarity_status
\* needs_clarification, research_attempts 0 and research_findings,
\* confidence_score, validation_result and final_response None, whatever
\* earlier turns of the thread had produced.
C33_SuspendedStateClean ==
    \A t \in AllThreads :
        Suspended(t) =>
            LET st == store[t].st
            IN  /\ st.clarity_status = "needs_clarification"
                /\ st.research_attempts = <<0>>
                /\ st.research_findings = None
                /\ st.confidence_score = NoNum
                /\ st.validation_result = None
                /\ st.final_response = None
                /\ store[t].next = "clarity_interrupt"

\* A thread whose first turn went through research, validator and synthesis
\* is suspended in its second turn.
C33_Witness ==
    /\ Suspended("t1")
    /\ TotalCount(store["t1"].st.visited_nodes, "validator") >= 1
    /\ TotalCount(store["t1"].st.visited_nodes, "synthesis") >= 1
    /\ store["t1"].st.research_attempts = <<0>>
    /\ Len(store["t1"].st.messages) = 5

\* The stages of the graph.
Nodes == {"clarity", "clarity_interrupt", "research", "validator", "synthesis"}

\* The four fields the routing functions read.
RoutingView(st) ==
    << st.clarity_status, st.confidence_score, st.validation_result,
       st.research_attempts >>

\* A state with the routing fields of st and other contents everywhere else.
Scrambled(st) ==
    [ st EXCEPT !.messages = <<HumanMessage("other")>>,
                !.query = "other",
                !.company_name = "Other",
                !.last_discussed_company = "Other",
                !.research_findings = None,
                !.final_response = "other",
                !.clarification_question = "other",
                !.visited_nodes = <<>> ]

\* C34: the stage that follows a stage is the same for any two states that
\* agree on clarity_status, confidence_score, validation_result and
\* research_attempts: for the states of two threads with different ids,
\* queries and histories, and for any state against one with the same four
\* fields and other messages, query, company, findings, answer and trace.
C34_RoutingDeterminism ==
    /\ \A st1 \in ThreadStates, st2 \in ThreadStates :
          RoutingView(st1) = RoutingView(st2)
              => \A node \in Nodes : NextNode(node, st1) = NextNode(node, st2)
    /\ \A st \in ThreadStates :
          /\ RoutingView(Scrambled(st)) = RoutingView(st)
          /\ \A node \in Nodes : NextNode(node, Scrambled(st)) = NextNode(node, st)

\* Two calls on different threads with different queries and histories have
\* both completed a research with the same score and stand before the same
\* next stage.
C34_Witness ==
    /\ Running("c1") /\ Running("c2")
    /\ calls["c1"].thread # calls["c2"].thread
    /\ RoutingView(calls["c1"].st) = RoutingView(calls["c2"].st)
    /\ calls["c1"].st.confidence_score = <<60>>
    /\ calls["c1"].st.query # calls["c2"].st.query
    /\ Len(calls["c1"].st.messages) # Len(calls["c2"].st.messages)
    /\ calls["c1"].next = "synthesis" /\ calls["c2"].next = "synthesis"

\* The number of messages that follow the last human message of a history.
RECURSIVE SinceHuman(_)
SinceHuman(messages) ==
    IF messages = <<>> \/ Last(messages).role = "human" THEN 0
    ELSE 1 + SinceHuman(SubSeq(messages, 1, Len(messages) - 1))

\* C35: a completed research, validator or synthesis adds exactly one message
\* (of the assistant) to messages, a completed clarity none, a completed
\* clarity_interrupt exactly one human message; a step that completes no
\* stage adds none. As each call has at most one human message of its own
\* (its input, or the resume value) and no history holds more than 3 + 3 + 1
\* messages after its last human message, a call adds at most 1 + 3 + 3 + 1.
C35_MessageGrowth ==
    /\ [][\A c \in AllCalls :
            LET old == calls[c].st.messages
                new == store'[calls[c].thread].st.messages
                node == calls[c].next
            IN  /\ StageCompleted(c) =>
                      /\ node = "clarity" => new = old
                      /\ node \in {"research", "validator", "synthesis"} =>
                            /\ Len(new) = Len(old) + 1
                            /\ IsPrefix(old, new)
                            /\ Last(new).role = "ai"
                      /\ node = "clarity_interrupt" =>
                            /\ Len(new) = Len(old) + 1
                            /\ IsPrefix(old, new)
                            /\ Last(new).role = "human"
                            /\ calls[c].op = "resume"
                            /\ calls'[c].resume = None
                /\ (Running(c) /\ ~StageCompleted(c)) => new = old]_vars
    /\ \A t \in AllThreads :
          SinceHuman(store[t].st.messages) <= MaxAttempts + MaxAttempts + 1

\* A resume has returned after its human message, three researches, three
\* validations and the synthesis: 1 + 3 + 3 + 1 messages on top of the
\* question of the suspended turn.
C35_Witness ==
    /\ Returned("c1") /\ calls["c1"].op = "resume"
    /\ calls["c1"].result.kind = "final"
    /\ SinceHuman(store["t1"].st.messages) = 7
    /\ Len(store["t1"].st.messages) = 9
    /\ store["t1"].st.visited_nodes
          = <<"clarity", "clarity_interrupt", "clarity",
              "research", "validator", "research", "validator",
              "research", "validator", "synthesis">>

-----------------------------------------------------------------------------
(* The alternate agent graph: gemini_langgraph_agent.py *)

\* evaluator, evaluator_router: iterations < 3
MaxIterations == 3
\* error_handler, error_router: retry_count >= 2
MaxRetries == 2
\* GRAPH.invoke(initial_state): no config, the default recursion limit of the
\* library; a run that has not ended after this many nodes is stopped with
\* GraphRecursionError.
RecursionLimit == 25

\* The questions run_agent is called with; the empty one makes reasoner raise.
AgentQuestions == {"q1", ""}

\* What the model behind reasoner can answer: a JSON object with the four
\* fields (any of them empty), or a failure of the call or of the parsing.
ReasonerReplies ==
    [ ok : {TRUE}, search_summary : {"", "sum"}, reasoning : {"why"},
      needs_more_info : BOOLEAN, refined_query : {"", "rq"} ]
    \cup
    { [ ok |-> FALSE, search_summary |-> "", reasoning |-> "",
        needs_more_info |-> FALSE, refined_query |-> "" ] }

\* What the model behind responder can answer: a text, or a failure.
ResponderReplies ==
    { [ok |-> TRUE, text |-> "answer"], [ok |-> FALSE, text |-> ""] }

\* run_agent: the state the graph is invoked with.
InitialAgentState(question) ==
    [ question |-> question,
      iterations |-> 0,
      search_results |-> <<>>,
      agent_reasoning |-> "",
      final_response |-> "",
      error |-> "",
      needs_more_info |-> FALSE,
      refined_query |-> "",
      current_query |-> "",
      failed_node |-> "",
      retry_count |-> 0 ]

\* reasoner: without a question, or when the model call or the parsing of
\* its answer raises, the error and the failed node are recorded and nothing
\* else is changed; else the answer is stored and error is cleared.
reasoner(st, reply) ==
    LET question == OrElse(st.current_query, OrElse(st.question, ""))
    IN  IF question = "" \/ ~reply.ok
            THEN [ st EXCEPT !.error = "reasoner node failed",
                             !.failed_node = "reasoner" ]
            ELSE [ st EXCEPT
                     !.search_results =
                         IF reply.search_summary # ""
                             THEN Append(@, reply.search_summary) ELSE @,
                     !.agent_reasoning = reply.reasoning,
                     !.needs_more_info = reply.needs_more_info,
                     !.refined_query = reply.refined_query,
                     !.current_query =
                         IF reply.refined_query # ""
                             THEN reply.refined_query ELSE @,
                     !.error = "" ]

\* evaluator: counts the iteration and chooses the query of the next search.
\* Nothing in its body can raise on a state that run_agent built.
evaluator(st) ==
    LET iterations == st.iterations + 1
    IN  [ st EXCEPT
            !.iterations = iterations,
            !.current_query =
                IF st.needs_more_info /\ iterations < MaxIterations
                    THEN OrElse(st.refined_query, OrElse(st.question, ""))
                    ELSE OrElse(st.question, ""),
            !.error = "" ]

\* responder: without a question or when the model call raises, the error and
\* the failed node are recorded; else the answer becomes final_response.
responder(st, reply) ==
    IF st.question = "" \/ ~reply.ok
        THEN [ st EXCEPT !.error = "responder node failed",
                         !.failed_node = "responder" ]
        ELSE [ st EXCEPT !.final_response = reply.text, !.error = "" ]

\* error_handler: the message it gives up with.
Fallback(question, last_error) ==
    "unable to complete; Question: " \o question \o "; Last error: " \o last_error

\* error_handler: the message of its except branch.
UnexpectedFallback(question, original_error) ==
    "unexpected error in the error handler; Question: " \o question
        \o "; Original error: " \o original_error

\* error_handler: with retry_count >= 2 the fallback message becomes
\* final_response. Else the retry is announced with print; when the print
\* (or the sleep) raises, the except branch writes its own message and error
\* and leaves retry_count as it is; when it does not, the retry is counted
\* after the backoff sleep and error is cleared.
error_handler(st, printed) ==
    IF st.retry_count >= MaxRetries
        THEN [ st EXCEPT !.final_response =
                   Fallback(OrElse(st.question, ""),
                            OrElse(st.error, "Unknown error")) ]
    ELSE IF ~printed
        THEN [ st EXCEPT !.final_response =
                   UnexpectedFallback(OrElse(st.question, ""), st.error),
                         !.error = "error_handler failed" ]
    ELSE [ st EXCEPT !.retry_count = st.retry_count + 1, !.error = "" ]

reasoner_router(st) ==
    IF st.error # "" THEN "error_handler" ELSE "evaluator"

\* Faulty variant: the loop back to reasoner has no cap.
evaluator_router_NoCap(st) ==
    IF st.error # "" THEN "error_handler"
    ELSE IF st.needs_more_info THEN "reasoner"
    ELSE "responder"

evaluator_router(st) ==
    IF st.error # "" THEN "error_handler"
    ELSE IF st.needs_more_info /\ st.iterations < MaxIterations THEN "reasoner"
    ELSE "responder"

responder_router(st) ==
    IF st.error # "" THEN "error_handler" ELSE "END"

error_router(st) ==
    IF st.retry_count >= MaxRetries THEN "END"
    ELSE IF st.failed_node = "" THEN "END"
    ELSE st.failed_node

\* A slot with no run_agent call in it.
NoAgentCall ==
    [ pc |-> "idle", node |-> "END", st |-> InitialAgentState(""),
      trace |-> <<>> ]

\* The graph is compiled without a checkpointer: no checkpoint is ever saved.
AgentInit ==
    /\ store = [t \in AllThreads |-> NoCheckpoint]
    /\ calls = [c \in AllCalls |-> NoAgentCall]

\* run_agent(question): GRAPH.invoke on the initial state, entry reasoner.
run_agent(c, question) ==
    /\ calls[c].pc # "run"
    /\ calls' = [calls EXCEPT ![c] =
                    [ pc |-> "run", node |-> "reasoner",
                      st |-> InitialAgentState(question), trace |-> <<>> ]]
    /\ UNCHANGED store

\* One node of the graph returned new: its router names the next node, the
\* call returns at END, and raises GraphRecursionError when the recursion
\* limit is reached with a node still to run. trace records the nodes that
\* ran, in order.
AgentComplete(c, node, new, nxt) ==
    /\ calls' = [calls EXCEPT ![c] =
                    [ pc |-> IF nxt = "END" THEN "done"
                             ELSE IF Len(calls[c].trace) + 1 >= RecursionLimit
                                 THEN "failed"
                             ELSE "run",
                      node |-> nxt, st |-> new,
                      trace |-> Append(calls[c].trace, node) ]]
    /\ UNCHANGED store

ReasonerNode(c) ==
    /\ calls[c].pc = "run" /\ calls[c].node = "reasoner"
    /\ \E reply \in ReasonerReplies :
          LET new == reasoner(calls[c].st, reply)
          IN  AgentComplete(c, "reasoner", new, reasoner_router(new))

EvaluatorNode(c) ==
    /\ calls[c].pc = "run" /\ calls[c].node = "evaluator"
    /\ LET new == evaluator(calls[c].st)
       IN  AgentComplete(c, "evaluator", new, evaluator_router(new))

ResponderNode(c) ==
    /\ calls[c].pc = "run" /\ calls[c].node = "responder"
    /\ \E reply \in ResponderReplies :
          LET new == responder(calls[c].st, reply)
          IN  AgentComplete(c, "responder", new, responder_router(new))

ErrorHandlerNode(c) ==
    /\ calls[c].pc = "run" /\ calls[c].node = "error_handler"
    /\ \E printed \in BOOLEAN :
          LET new == error_handler(calls[c].st, printed)
          IN  AgentComplete(c, "error_handler", new, error_router(new))

AgentStep(c) ==
    \/ ReasonerNode(c)
    \/ EvaluatorNode(c)
    \/ ResponderNode(c)
    \/ ErrorHandlerNode(c)

\* The caller of the module: one run_agent call at a time.
NextAgent ==
    \/ \E question \in AgentQuestions : run_agent("c1", question)
    \/ AgentStep("c1")

SpecAgent == AgentInit /\ [][NextAgent]_vars

\* Every node that is reached returns.
FairSpecAgent == SpecAgent /\ WF_vars(AgentStep("c1"))

-----------------------------------------------------------------------------
(* C36..C39 *)

\* This step is node `node` of the run_agent call of slot c returning.
AgentNodeDone(c, node) ==
    /\ calls[c].pc = "run" /\ calls[c].node = node
    /\ calls'[c].trace = Append(calls[c].trace, node)

\* C36: every execution of evaluator raises iterations by exactly 1; after
\* evaluator the run goes to reasoner exactly when error is empty,
\* needs_more_info is true and iterations is below 3, and to responder
\* otherwise; iterations counts the evaluator executions of the run and
\* neither exceeds 3, reasoner failures and retries included.
C36_IterationCap ==
    /\ [][\A c \in AllCalls :
            AgentNodeDone(c, "evaluator") =>
                LET new == calls'[c].st
                IN  /\ new.iterations = calls[c].st.iterations + 1
                    /\ calls'[c].node = "reasoner"
                          <=> (new.error = "" /\ new.needs_more_info
                                    /\ new.iterations < 3)
                    /\ calls'[c].node \in {"reasoner", "responder"}]_vars
    /\ \A c \in AllCalls :
          /\ calls[c].st.iterations <= 3
          /\ TotalCount(calls[c].trace, "evaluator") <= 3
          /\ calls[c].st.iterations = TotalCount(calls[c].trace, "evaluator")

\* Three evaluations, with a failed and retried reasoner in between, and the
\* third one went on to responder although more information was asked for.
C36_Witness ==
    /\ calls["c1"].pc = "run" /\ calls["c1"].node = "responder"
    /\ calls["c1"].st.iterations = 3
    /\ calls["c1"].st.needs_more_info
    /\ Last(calls["c1"].trace) = "evaluator"
    /\ TotalCount(calls["c1"].trace, "evaluator") = 3
    /\ TotalCount(calls["c1"].trace, "error_handler") = 1

\* The states error_handler could be given with the retries used up: those
\* of the calls with retry_count and error set to other values.
ExhaustedStates ==
    { [ calls[c].st EXCEPT !.retry_count = n, !.error = e ] :
        c \in AllCalls, n \in 2..3,
        e \in {"", "reasoner node failed", "responder node failed"} }

\* C37: retry_count stays within 0..2 and never decreases during a run, and
\* error_handler runs at most twice in a run, each execution being a counted
\* retry; an error_handler that starts with retry_count < 2 raises it by
\* exactly 1 and clears error; given retry_count >= 2, error_handler leaves
\* retry_count as it is, sets final_response to the fallback message for the
\* question and the last error, and error_router ends the run.
C37_RetryCap ==
    /\ \A c \in AllCalls :
          /\ calls[c].st.retry_count \in 0..2
          /\ TotalCount(calls[c].trace, "error_handler") <= 2
          /\ calls[c].st.retry_count = TotalCount(calls[c].trace, "error_handler")
    /\ [][\A c \in AllCalls :
            /\ (calls[c].pc = "run" /\ calls'[c] # calls[c])
                  => calls'[c].st.retry_count >= calls[c].st.retry_count
            /\ (AgentNodeDone(c, "error_handler") /\ calls[c].st.retry_count < 2)
                  => /\ calls'[c].st.retry_count = calls[c].st.retry_count + 1
                     /\ calls'[c].st.error = ""
                     /\ calls'[c].st.final_response = calls[c].st.final_response]_vars
    /\ \A st \in ExhaustedStates, printed \in BOOLEAN :
          LET new == error_handler(st, printed)
          IN  /\ new.retry_count = st.retry_count
              /\ new.error = st.error
              /\ new.final_response
                    = Fallback(st.question,
                               IF st.error = "" THEN "Unknown error" ELSE st.error)
              /\ new.final_response # st.final_response
              /\ error_router(new) = "END"

\* C38: after reasoner, evaluator or responder the run goes to error_handler
\* whenever error is non-empty, and to the next normal stage only when it is
\* empty; an error_handler that counted a retry is followed by the node named
\* in failed_node, by END when failed_node is empty.
C38_FailedNodeRetried ==
    [][\A c \in AllCalls :
          /\ \A node \in {"reasoner", "evaluator", "responder"} :
                AgentNodeDone(c, node) =>
                    (calls'[c].node = "error_handler" <=> calls'[c].st.error # "")
          /\ (AgentNodeDone(c, "error_handler")
                  /\ calls'[c].st.retry_count > calls[c].st.retry_count)
                => calls'[c].node
                      = IF calls'[c].st.failed_node = ""
                            THEN "END" ELSE calls'[c].st.failed_node]_vars

\* The kinds of message error_handler can give up with.
IsFallback(text) ==
    \E question \in AgentQuestions,
       e \in {"Unknown error", "reasoner node failed", "responder node failed"} :
          text = Fallback(question, e)

\* C39: when a run_agent call in which error_handler never took its except
\* branch (every execution of it counted a retry) has returned, either error
\* is empty and responder was the last node to run, or retry_count is at
\* least 2 and final_response is the fallback message.
C39_EndStates ==
    \A c \in AllCalls :
        ( /\ calls[c].pc = "done"
          /\ calls[c].st.retry_count = TotalCount(calls[c].trace, "error_handler") )
            => \/ /\ calls[c].st.error = ""
                  /\ calls[c].trace # <<>>
                  /\ Last(calls[c].trace) = "responder"
               \/ /\ calls[c].st.retry_count >= 2
                  /\ IsFallback(calls[c].st.final_response)

\* Every run_agent call returns, at END or with GraphRecursionError.
AgentTerminates ==
    (calls["c1"].pc = "run") ~> (calls["c1"].pc \in {"done", "failed"})

\* A run_agent call ends with GraphRecursionError only when error_handler
\* took its except branch in it.
AgentFailsOnlyUncounted ==
    \A c \in AllCalls :
        calls[c].pc = "failed"
            => calls[c].st.retry_count < TotalCount(calls[c].trace, "error_handler")

=============================================================================
